---- MODULE Spec2Model ----
(***************************************************************************)
(* Milestone / issue synchronisation between a source and a target          *)
(* repository, in its three revisions:                                      *)
(*   "migrate"  : migrate_milestones.py             (create only)           *)
(*   "free"     : migrate_milestones_and_issues.py  (match by title)        *)
(*   "preserve" : sync_milestones_and_issues.py     (preserve issue numbers)*)
(* Every HTTP request of the program is one step.  A request either         *)
(* succeeds or returns a non-success status; the remote numbers issues      *)
(* sequentially and never reuses a number.                                  *)
(***************************************************************************)
EXTENDS Integers, Sequences, FiniteSets, TLC

(* ------------------------------ bounds -------------------------------- *)
\* source issues are numbered 1..MaxIssueNum
MaxIssueNum == 3
\* requests that may return a non-success status in one behaviour
MaxFailures == 1
\* consecutive runs of the program against the same repositories
MaxRuns == 2
\* issues the target holds before the first run
MaxPreexisting == 1
\* issues created in the target by somebody else while the program runs
MaxOtherWrites == 1

(* ------------------------- program constants -------------------------- *)
\* "per_page": 100
PerPage == 100
\* Python's None where a number is expected (remote numbers start at 1)
None == 0

Modes == {"migrate", "free", "preserve"}
SyncModes == {"free", "preserve"}

(* ------------------------------ helpers ------------------------------- *)
Min(a, b) == IF a < b THEN a ELSE b

Digit(d) ==
  CASE d = 0 -> "0" [] d = 1 -> "1" [] d = 2 -> "2" [] d = 3 -> "3"
    [] d = 4 -> "4" [] d = 5 -> "5" [] d = 6 -> "6" [] d = 7 -> "7"
    [] d = 8 -> "8" [] d = 9 -> "9"

\* str(n) as used by f-strings and by json.dump for dictionary keys
RECURSIVE IntToStr(_)
IntToStr(n) == IF n < 10 THEN Digit(n) ELSE IntToStr(n \div 10) \o Digit(n % 10)

\* variant: the assignment is lost
Put_Lost(d, k, v) == d

\* d[k] = v on a Python dict
Put(d, k, v) == [x \in (DOMAIN d) \cup {k} |-> IF x = k THEN v ELSE d[x]]

\* d.get(k)
Get(d, k) == IF k \in DOMAIN d THEN d[k] ELSE None

EmptyDict == [x \in {} |-> None]

RECURSIVE Reverse(_)
Reverse(s) == IF s = <<>> THEN <<>> ELSE Reverse(Tail(s)) \o <<Head(s)>>

\* page p (1-based) of a listing, PerPage records a page
Page(listing, p) ==
  SubSeq(listing, (p - 1) * PerPage + 1, Min(p * PerPage, Len(listing)))

\* sorted(issues, key=lambda x: x["number"]) : stable insertion sort
RECURSIVE InsertByNumber(_, _)
InsertByNumber(s, x) ==
  IF s = <<>> THEN <<x>>
  ELSE IF x.number < Head(s).number THEN <<x>> \o s
  ELSE <<Head(s)>> \o InsertByNumber(Tail(s), x)

RECURSIVE SortByNumber(_)
SortByNumber(s) ==
  IF s = <<>> THEN <<>>
  ELSE InsertByNumber(SortByNumber(SubSeq(s, 1, Len(s) - 1)), s[Len(s)])

\* f"[PLACEHOLDER] Issue #{i}"
PlaceholderTitle(i) == "[PLACEHOLDER] Issue #" \o IntToStr(i)

(* ------------------------------- state -------------------------------- *)
VARIABLES
  mode,               \* which revision of the program runs
  github_dir,         \* the .github directory exists in the working directory
  src_milestones,     \* source repository: milestones in listing order
  src_issues,         \* source repository: milestone number -> issues in listing order
  tgt_milestones,     \* target repository: milestone titles, number = index
  tgt_issues,         \* target repository: issues, number = index
  preexisting,        \* number of issues the target held before the first run
  pc,                 \* position of the program
  page, acc,          \* pagination loop: page number and records gathered so far
  source_milestones,  \* the fetched milestone list
  milestone_mapping, issue_mapping,
  synced_milestones, total_issues, synced_issues,
  mi, gi, ii,         \* loop indices: milestone, milestone group, issue in group
  issues,             \* the issue list of the current group, as iterated
  existing,           \* result of the last lookup (a target number or None)
  highest_issue_number,
  i,                  \* placeholder loop variable
  exit_code,          \* the process's exit status, once pc = "exited"
  mapping_file,       \* .github/issue-mappings.json
  log,                \* requests sent and messages printed by the current run
  run, failures, other_writes,
  prev                \* how the previous run ended: its mapping, exit status and log

env == <<mode, src_milestones, src_issues, preexisting>>
remote == <<tgt_milestones, tgt_issues>>
ctl == <<pc, page, acc, mi, gi, ii, issues, existing, highest_issue_number, i>>
data == <<source_milestones, milestone_mapping, issue_mapping,
          synced_milestones, total_issues, synced_issues>>
out == <<exit_code, mapping_file, github_dir>>
meta == <<run, other_writes, prev>>
vars == <<env, remote, ctl, data, out, log, meta, failures>>

(* ------------------------------ inputs -------------------------------- *)
Milestone(n) == [number |-> n, title |-> "v" \o IntToStr(n)]

SourceMilestoneLists == {<<>>, <<Milestone(1)>>, <<Milestone(1), Milestone(2)>>}

Issue(n, dup) ==
  [number |-> n, title |-> IF dup THEN "T" ELSE "T" \o IntToStr(n)]

\* issues 1..n whose milestone is m, in ascending number order
RECURSIVE AscendingGroup(_, _, _, _)
AscendingGroup(assign, m, n, dup) ==
  IF n = 0 THEN <<>>
  ELSE AscendingGroup(assign, m, n - 1, dup)
         \o (IF assign[n] = m THEN <<Issue(n, dup)>> ELSE <<>>)

Group(assign, m, desc, dup) ==
  IF desc THEN Reverse(AscendingGroup(assign, m, MaxIssueNum, dup))
  ELSE AscendingGroup(assign, m, MaxIssueNum, dup)

MilestoneNumbers(ms) == {ms[k].number : k \in 1..Len(ms)}

\* an issue of the target: number = index in tgt_issues
TargetIssue(title, ms) == [title |-> title, milestone |-> ms]

NoFile == [exists |-> FALSE, source |-> "", target |-> "",
           issue_mappings |-> EmptyDict, timestamp |-> FALSE]

NoRun == [issue_mapping |-> EmptyDict, exit_code |-> 0, log |-> <<>>]

Init ==
  /\ mode \in Modes
  /\ github_dir \in (IF mode = "free" THEN BOOLEAN ELSE {FALSE})
  /\ src_milestones \in SourceMilestoneLists
  /\ \E assign \in [1..MaxIssueNum -> {None} \cup MilestoneNumbers(src_milestones)],
        desc \in BOOLEAN, dup \in BOOLEAN :
       \* the flags only matter where they change a listing
       /\ desc => \E m \in MilestoneNumbers(src_milestones) :
                     Cardinality({n \in 1..MaxIssueNum : assign[n] = m}) >= 2
       /\ dup => /\ mode = "free"
                 /\ Cardinality({n \in 1..MaxIssueNum : assign[n] # None}) >= 2
       /\ src_issues = [m \in MilestoneNumbers(src_milestones) |->
                          Group(assign, m, desc, dup)]
  /\ tgt_milestones = <<>>
  /\ preexisting \in 0..MaxPreexisting
  /\ tgt_issues = [j \in 1..preexisting |-> TargetIssue("Old", None)]
  /\ pc = "main"
  /\ page = 1 /\ acc = <<>>
  /\ source_milestones = <<>>
  /\ milestone_mapping = EmptyDict /\ issue_mapping = EmptyDict
  /\ synced_milestones = 0 /\ total_issues = 0 /\ synced_issues = 0
  /\ mi = 1 /\ gi = 1 /\ ii = 1
  /\ issues = <<>>
  /\ existing = None
  /\ highest_issue_number = 0
  /\ i = 0
  /\ exit_code = 0
  /\ mapping_file = NoFile
  /\ log = <<>>
  /\ run = 1 /\ failures = 0 /\ other_writes = 0
  /\ prev = NoRun

(* ------------------------------ the log -------------------------------- *)
\* one request or printed message: op, the source issue or milestone it is
\* for, the target number addressed or intended, whether it succeeded, the
\* number the remote answered with, the milestone reference of the payload.
\* A "call" event opens the sync of one issue; its res is the highest target
\* number at that moment.
Event(op, src, n, ok, res, ms) ==
  [op |-> op, src |-> src, n |-> n, ok |-> ok, res |-> res, ms |-> ms]

\* a request may fail while the failure budget lasts
MayBe(ok) == ok \/ failures < MaxFailures
Spend(ok) == failures' = IF ok THEN failures ELSE failures + 1

Logged(e) == log' = Append(log, e)

(* --------------------------- remote lookups ---------------------------- *)
\* the first record of a listing that carries the title, or None
FirstMatch(listing, title) ==
  IF \E k \in 1..Len(listing) : listing[k].title = title
  THEN listing[CHOOSE k \in 1..Len(listing) :
                 /\ listing[k].title = title
                 /\ \A j \in 1..(k - 1) : listing[j].title # title].number
  ELSE None

\* GET /milestones?state=all&per_page=100 of the target
TargetMilestoneListing ==
  [k \in 1..Len(tgt_milestones) |-> [number |-> k, title |-> tgt_milestones[k]]]

\* GET /issues?state=all&per_page=100 of the target: the remote's default
\* order is newest first
TargetIssueListing ==
  Reverse([k \in 1..Len(tgt_issues) |-> [number |-> k, title |-> tgt_issues[k].title]])

get_milestone_by_title(title, ok) ==
  IF ok THEN FirstMatch(Page(TargetMilestoneListing, 1), title) ELSE None

get_issue_by_title(title, ok) ==
  IF ok THEN FirstMatch(Page(TargetIssueListing, 1), title) ELSE None

get_issue_by_number(n, ok) ==
  IF ok /\ n \in 1..Len(tgt_issues) THEN n ELSE None

\* variant: the highest number is never read from the response
get_highest_issue_number_Zero(ok) == 0

\* variant: the number is read whatever the status of the response
get_highest_issue_number_AnyStatus(ok) ==
  IF tgt_issues # <<>> THEN Len(tgt_issues) ELSE 0

get_highest_issue_number(ok) ==
  IF ok /\ tgt_issues # <<>> THEN Len(tgt_issues) ELSE 0

(* ------------------------------ control ------------------------------- *)
FirstMilestoneStep == IF mode = "migrate" THEN "ms_post" ELSE "ms_lookup"
FirstIssueStep == IF mode = "migrate" THEN "issue_post" ELSE "issue_lookup"

\* variant: the issue phase begins after the first milestone
NextMilestone_OnlyFirst ==
  /\ pc' = "list_issues"
  /\ gi' = 1 /\ page' = 1 /\ acc' = <<>>
  /\ UNCHANGED mi

\* for milestone in source_milestones: ... ; then the issue phase begins
NextMilestone ==
  IF mi < Len(source_milestones)
  THEN /\ mi' = mi + 1
       /\ pc' = FirstMilestoneStep
       /\ UNCHANGED <<gi, page, acc>>
  ELSE /\ pc' = "list_issues"
       /\ gi' = 1 /\ page' = 1 /\ acc' = <<>>
       /\ UNCHANGED mi

\* for milestone in source_milestones: issues = get_issues_by_milestone(...)
NextGroup ==
  IF gi < Len(source_milestones)
  THEN /\ gi' = gi + 1
       /\ pc' = "list_issues"
       /\ page' = 1 /\ acc' = <<>>
  ELSE /\ pc' = (IF mode = "migrate" THEN "summary" ELSE "save")
       /\ UNCHANGED <<gi, page, acc>>

\* for issue in issues: ...
NextIssue ==
  IF ii < Len(issues)
  THEN /\ ii' = ii + 1
       /\ pc' = FirstIssueStep
       /\ UNCHANGED <<gi, page, acc>>
  ELSE /\ ii' = ii
       /\ NextGroup

(* -------------------------------- main -------------------------------- *)
\* main(): the five environment variables must all be set
Main(configured) ==
  /\ pc = "main"
  /\ IF configured
     THEN /\ pc' = "get_milestones"
          /\ UNCHANGED <<exit_code, log>>
     ELSE /\ pc' = "exited"
          /\ exit_code' = 1
          /\ Logged(Event("print_missing_config", None, None, FALSE, None, None))
  /\ UNCHANGED <<env, remote, data, meta, failures, mapping_file, github_dir,
                 page, acc, mi, gi, ii, issues, existing, highest_issue_number, i>>

\* variant: the emptiness test is missing
NoMilestones_Never(fetched) == FALSE

\* if not source_milestones: ... return
NoMilestones(fetched) == fetched = <<>>

\* get_milestones(): one page request of the source milestone listing, and,
\* on the empty page that ends the loop, the emptiness test of the caller
GetMilestonesPage(ok) ==
  /\ pc = "get_milestones"
  /\ MayBe(ok) /\ Spend(ok)
  /\ IF ~ok
     THEN /\ pc' = "exited" /\ exit_code' = 1
          /\ Logged(Event("GET_src_milestones", None, page, FALSE, None, None))
          /\ UNCHANGED <<page, acc, source_milestones, mi, gi>>
     ELSE IF Page(src_milestones, page) # <<>>
     THEN /\ acc' = acc \o Page(src_milestones, page)
          /\ page' = page + 1
          /\ Logged(Event("GET_src_milestones", None, page, TRUE, None, None))
          /\ UNCHANGED <<pc, exit_code, source_milestones, mi, gi>>
     ELSE /\ source_milestones' = acc
          /\ IF NoMilestones(acc)
             THEN /\ pc' = "exited" /\ exit_code' = 0
                  /\ log' = log \o <<Event("GET_src_milestones", None, page, TRUE, None, None),
                                     Event("print_no_milestones", None, None, TRUE, None, None)>>
                  /\ UNCHANGED <<page, acc, mi, gi>>
             ELSE /\ pc' = IF acc # <<>> THEN FirstMilestoneStep
                          ELSE IF mode = "migrate" THEN "summary" ELSE "save"
                  /\ mi' = 1 /\ gi' = 1 /\ page' = 1 /\ acc' = <<>>
                  /\ Logged(Event("GET_src_milestones", None, page, TRUE, None, None))
                  /\ UNCHANGED exit_code
  /\ UNCHANGED <<env, remote, meta, mapping_file, github_dir,
                 milestone_mapping, issue_mapping, synced_milestones, total_issues,
                 synced_issues, ii, issues, existing, highest_issue_number, i>>

(* ----------------------------- milestones ------------------------------ *)
\* sync_milestone(): get_milestone_by_title, then the branch on its result
MilestoneLookup(ok) ==
  /\ pc = "ms_lookup"
  /\ MayBe(ok) /\ Spend(ok)
  /\ LET m == source_milestones[mi]
         found == get_milestone_by_title(m.title, ok)
     IN /\ existing' = found
        /\ pc' = IF found # None THEN "ms_patch" ELSE "ms_post"
        /\ Logged(Event("GET_ms_title", m.number, None, ok, found, None))
  /\ UNCHANGED <<env, remote, data, out, meta,
                 page, acc, mi, gi, ii, issues, highest_issue_number, i>>

\* sync_milestone(): requests.patch of the milestone found by title
MilestonePatch(ok) ==
  /\ pc = "ms_patch"
  /\ MayBe(ok) /\ Spend(ok)
  /\ LET m == source_milestones[mi]
     IN /\ Logged(Event("PATCH_ms", m.number, existing, ok,
                        IF ok THEN existing ELSE None, None))
        /\ IF ok
           THEN /\ tgt_milestones' = [tgt_milestones EXCEPT ![existing] = m.title]
                /\ milestone_mapping' = Put(milestone_mapping, m.number, existing)
                /\ synced_milestones' = synced_milestones + 1
           ELSE UNCHANGED <<tgt_milestones, milestone_mapping, synced_milestones>>
  /\ NextMilestone
  /\ UNCHANGED <<env, tgt_issues, out, meta, source_milestones, issue_mapping,
                 total_issues, synced_issues, ii, issues, existing,
                 highest_issue_number, i>>

\* variant: the remote accepts a title it already carries
MilestonePostStatus_AnyTitle(title, ok) == IF ok THEN 201 ELSE 500

\* the status the remote answers a POST /milestones with: a title the
\* target already carries is refused as a duplicate
MilestonePostStatus(title, ok) ==
  IF ~ok THEN 500
  ELSE IF \E k \in 1..Len(tgt_milestones) : tgt_milestones[k] = title THEN 422
  ELSE 201

\* the error branches that print response.json(): the body of a refused
\* request is parsed only there
MilestoneErrorBodyRead == mode = "migrate"
IssueErrorBodyRead == mode \in {"migrate", "preserve"}

\* an uncaught exception ends the process with a traceback and status 1
Raised(exception) == Event(exception, None, None, FALSE, None, None)

\* sync_milestone() / create_milestone(): requests.post of a new milestone;
\* json: the body of the answer parses as JSON
MilestonePost(ok, json) ==
  /\ pc = "ms_post"
  /\ MayBe(ok) /\ Spend(ok)
  /\ json \/ (~ok /\ MilestoneErrorBodyRead)
  /\ LET m == source_milestones[mi]
         status == MilestonePostStatus(m.title, ok)
         number == Len(tgt_milestones) + 1
         post == Event("POST_ms", m.number, None, status = 201,
                       IF status = 201 THEN number ELSE None, None)
     IN IF status = 201
        THEN /\ tgt_milestones' = Append(tgt_milestones, m.title)
             /\ milestone_mapping' = Put(milestone_mapping, m.number, number)
             /\ synced_milestones' = synced_milestones + 1
             /\ Logged(post)
             /\ NextMilestone
             /\ UNCHANGED exit_code
        ELSE /\ UNCHANGED <<tgt_milestones, milestone_mapping, synced_milestones>>
             /\ IF status = 422 /\ mode = "migrate"
                THEN /\ pc' = "ms_conflict_lookup"
                     /\ Logged(post)
                     /\ UNCHANGED <<mi, gi, page, acc, exit_code>>
                ELSE IF ~json
                THEN /\ pc' = "exited" /\ exit_code' = 1
                     /\ log' = log \o <<post, Raised("raise_JSONDecodeError")>>
                     /\ UNCHANGED <<mi, gi, page, acc>>
                ELSE /\ Logged(post)
                     /\ NextMilestone
                     /\ UNCHANGED exit_code
  /\ UNCHANGED <<env, tgt_issues, mapping_file, github_dir, meta, source_milestones,
                 issue_mapping, total_issues, synced_issues, ii, issues, existing,
                 highest_issue_number, i>>

\* create_milestone(): on "already exists" look the milestone up by title
MilestoneConflictLookup(ok) ==
  /\ pc = "ms_conflict_lookup"
  /\ MayBe(ok) /\ Spend(ok)
  /\ LET m == source_milestones[mi]
         found == get_milestone_by_title(m.title, ok)
     IN /\ existing' = found
        /\ Logged(Event("GET_ms_title", m.number, None, ok, found, None))
        /\ IF found # None
           THEN /\ milestone_mapping' = Put(milestone_mapping, m.number, found)
                /\ synced_milestones' = synced_milestones + 1
           ELSE UNCHANGED <<milestone_mapping, synced_milestones>>
  /\ NextMilestone
  /\ UNCHANGED <<env, remote, out, meta, source_milestones, issue_mapping,
                 total_issues, synced_issues, ii, issues, highest_issue_number, i>>

(* ------------------------------- issues -------------------------------- *)
\* the issue being synced and the milestone number its payload carries
CurrentIssue == issues[ii]
\* variant: an unmapped milestone falls back to the source milestone number
new_milestone_number_Source ==
  IF source_milestones[gi].number \in DOMAIN milestone_mapping
  THEN milestone_mapping[source_milestones[gi].number]
  ELSE source_milestones[gi].number

new_milestone_number == Get(milestone_mapping, source_milestones[gi].number)

\* variant: the group is iterated as listed
IterationOrder_AsListed(fetched) == fetched

\* the order in which a fetched group is iterated
IterationOrder(fetched) ==
  IF mode = "preserve" THEN SortByNumber(fetched) ELSE fetched

\* get_issues_by_milestone(): one page request of the group's listing, and,
\* when the loop ends, the "if issues:" test of the caller
ListIssuesPage(ok) ==
  /\ pc = "list_issues"
  /\ MayBe(ok) /\ Spend(ok)
  /\ LET m == source_milestones[gi].number
         d == Page(src_issues[m], page)
     IN /\ Logged(Event("GET_src_issues", m, page, ok, None, None))
        /\ IF ~ok
           THEN /\ issues' = <<>>
                /\ NextGroup
                /\ UNCHANGED ii
           ELSE IF d # <<>>
           THEN /\ acc' = acc \o d
                /\ page' = page + 1
                /\ UNCHANGED <<pc, gi, ii, issues>>
           ELSE IF acc = <<>>
           THEN /\ issues' = <<>>
                /\ NextGroup
                /\ UNCHANGED ii
           ELSE /\ issues' = IterationOrder(acc)
                /\ ii' = 1
                /\ pc' = FirstIssueStep
                /\ UNCHANGED <<gi, page, acc>>
  /\ UNCHANGED <<env, remote, data, out, meta, mi, existing, highest_issue_number, i>>

\* sync_issue() / sync_issue_with_same_number(): the lookup that opens the
\* call (by title, or by number), then the branch on its result
IssueLookup(ok) ==
  /\ pc = "issue_lookup"
  /\ MayBe(ok) /\ Spend(ok)
  /\ total_issues' = total_issues + 1
  /\ LET s == CurrentIssue
         found == IF mode = "preserve" THEN get_issue_by_number(s.number, ok)
                  ELSE get_issue_by_title(s.title, ok)
     IN /\ existing' = found
        /\ pc' = IF found # None THEN "issue_patch"
                 ELSE IF mode = "preserve" THEN "get_highest" ELSE "issue_post"
        /\ log' = log \o <<Event("call", s.number, None, TRUE, Len(tgt_issues), new_milestone_number),
                           Event("GET_issue", s.number,
                                 IF mode = "preserve" THEN s.number ELSE None,
                                 ok, found, None)>>
  /\ UNCHANGED <<env, remote, out, meta, source_milestones, milestone_mapping,
                 issue_mapping, synced_milestones, synced_issues,
                 page, acc, mi, gi, ii, issues, highest_issue_number, i>>

\* the record a PATCH leaves: keys absent from the payload keep their value
Patched(old, title, ms) ==
  [title |-> title, milestone |-> IF ms # None THEN ms ELSE old.milestone]

\* requests.patch of the issue the lookup returned
IssuePatch(ok) ==
  /\ pc = "issue_patch"
  /\ MayBe(ok) /\ Spend(ok)
  /\ LET s == CurrentIssue
         ms == new_milestone_number
     IN /\ Logged(Event("PATCH_issue", s.number, existing, ok,
                        IF ok THEN existing ELSE None, ms))
        /\ IF ok
           THEN /\ tgt_issues' = [tgt_issues EXCEPT
                                    ![existing] = Patched(@, s.title, ms)]
                /\ issue_mapping' = Put(issue_mapping, s.number, existing)
                /\ synced_issues' = synced_issues + 1
           ELSE UNCHANGED <<tgt_issues, issue_mapping, synced_issues>>
  /\ NextIssue
  /\ UNCHANGED <<env, tgt_milestones, out, meta, source_milestones,
                 milestone_mapping, synced_milestones, total_issues,
                 mi, issues, existing, highest_issue_number, i>>

\* range(highest_issue_number + 1, source_issue_number): first value, and
\* the value the loop stops before
\* variant: the loop starts at the highest number itself
RangeStart_AtHighest(h) == h

RangeStart(h) == h + 1
\* variant: the stop value taken as the last value of the loop
RangeStop_Inclusive(s) == s + 1
RangeStop(s) == s

\* sync_issue_with_same_number(): get_highest_issue_number, then the test
\* that opens the placeholder loop
GetHighest(ok) ==
  /\ pc = "get_highest"
  /\ MayBe(ok) /\ Spend(ok)
  /\ LET s == CurrentIssue
         h == get_highest_issue_number(ok)
     IN /\ highest_issue_number' = h
        /\ Logged(Event("GET_highest", s.number, None, ok, h, None))
        /\ IF h < s.number /\ RangeStart(h) < RangeStop(s.number)
           THEN /\ pc' = "placeholder"
                /\ i' = RangeStart(h)
           ELSE /\ pc' = "issue_post"
                /\ UNCHANGED i
  /\ UNCHANGED <<env, remote, data, out, meta, page, acc, mi, gi, ii, issues, existing>>

\* variant: the loop is left at the first refused placeholder
ContinuesAfter_OnlySuccess(ok) == ok

\* the loop body has no break or return: whatever the answer to a
\* placeholder request, the loop goes on to the next value
ContinuesAfter(ok) == TRUE

\* one iteration of: for i in range(highest_issue_number + 1, source_issue_number)
Placeholder(ok) ==
  /\ pc = "placeholder"
  /\ MayBe(ok) /\ Spend(ok)
  /\ LET s == CurrentIssue
         number == Len(tgt_issues) + 1
     IN /\ IF ok
           THEN /\ tgt_issues' = Append(tgt_issues, TargetIssue(PlaceholderTitle(i), None))
                /\ Logged(Event("POST_placeholder", s.number, i, TRUE, number, None))
           ELSE /\ UNCHANGED tgt_issues
                /\ log' = log \o <<Event("POST_placeholder", s.number, i, FALSE, None, None),
                                   Event("print_placeholder_failed", s.number, i, FALSE, None, None)>>
        /\ IF ContinuesAfter(ok) /\ i + 1 < RangeStop(s.number)
           THEN /\ i' = i + 1
                /\ UNCHANGED pc
           ELSE /\ pc' = "issue_post"
                /\ UNCHANGED i
  /\ UNCHANGED <<env, tgt_milestones, data, out, meta,
                 page, acc, mi, gi, ii, issues, existing, highest_issue_number>>

\* variant: the intended number is recorded
RecordedNumber_Intended(source_issue_number, actual_number) == source_issue_number

\* self.issue_mapping[source_issue_number] = actual_number
RecordedNumber(source_issue_number, actual_number) == actual_number

\* requests.post of the real issue, and what the call does with the
\* answer; json: the body of the answer parses as JSON
IssuePost(ok, json) ==
  /\ pc = "issue_post"
  /\ MayBe(ok) /\ Spend(ok)
  /\ json \/ (~ok /\ IssueErrorBodyRead)
  /\ total_issues' = IF mode = "migrate" THEN total_issues + 1 ELSE total_issues
  /\ LET s == CurrentIssue
         ms == new_milestone_number
         actual_number == Len(tgt_issues) + 1
         call == IF mode = "migrate"
                 THEN <<Event("call", s.number, None, TRUE, Len(tgt_issues), ms)>> ELSE <<>>
         post == Event("POST_issue", s.number, s.number, ok,
                       IF ok THEN actual_number ELSE None, ms)
         warn == IF mode = "preserve" /\ ok /\ actual_number # s.number
                 THEN <<Event("print_created_as_instead_of", s.number, s.number,
                              TRUE, actual_number, None)>>
                 ELSE <<>>
     IN IF ok
        THEN /\ tgt_issues' = Append(tgt_issues, TargetIssue(s.title, ms))
             /\ issue_mapping' = IF mode = "migrate" THEN issue_mapping
                                 ELSE Put(issue_mapping, s.number,
                                          RecordedNumber(s.number, actual_number))
             /\ synced_issues' = synced_issues + 1
             /\ log' = log \o call \o <<post>> \o warn
             /\ NextIssue
             /\ UNCHANGED exit_code
        ELSE /\ UNCHANGED <<tgt_issues, issue_mapping, synced_issues>>
             /\ IF ~json
                THEN /\ pc' = "exited" /\ exit_code' = 1
                     /\ log' = log \o call \o <<post, Raised("raise_JSONDecodeError")>>
                     /\ UNCHANGED <<gi, ii, page, acc>>
                ELSE /\ log' = log \o call \o <<post>>
                     /\ NextIssue
                     /\ UNCHANGED exit_code
  /\ UNCHANGED <<env, tgt_milestones, mapping_file, github_dir, meta, source_milestones,
                 milestone_mapping, synced_milestones,
                 mi, issues, existing, highest_issue_number, i>>

(* ---------------------------- end of a run ----------------------------- *)
\* json.dump of a dict: every key is written as a string
JsonObject(d) ==
  [k \in {IntToStr(n) : n \in DOMAIN d} |->
     d[CHOOSE n \in DOMAIN d : IntToStr(n) = k]]

\* save_mappings(), then the summary that ends sync_bidirectional().  Only
\* the number-preserving revision creates the directory before writing.
Save ==
  /\ pc = "save"
  /\ pc' = "exited"
  /\ IF mode = "free" /\ ~github_dir
     THEN /\ exit_code' = 1
          /\ Logged(Raised("raise_FileNotFoundError"))
          /\ UNCHANGED <<mapping_file, github_dir>>
     ELSE /\ exit_code' = 0
          /\ github_dir' = TRUE
          /\ mapping_file' = [exists |-> TRUE,
                              source |-> "source_owner/source_repo",
                              target |-> "target_owner/target_repo",
                              issue_mappings |-> JsonObject(issue_mapping),
                              timestamp |-> (mode = "preserve")]
          /\ log' = log \o <<Event("save_mappings", None, None, TRUE, None, None),
                             Event("print_summary", synced_milestones, total_issues,
                                   TRUE, synced_issues, None)>>
  /\ UNCHANGED <<env, remote, data, meta, failures,
                 page, acc, mi, gi, ii, issues, existing, highest_issue_number, i>>

\* migrate(): the summary that ends the run (no mapping file is written)
Summary ==
  /\ pc = "summary"
  /\ pc' = "exited"
  /\ exit_code' = 0
  /\ Logged(Event("print_summary", synced_milestones, total_issues,
                  TRUE, synced_issues, None))
  /\ UNCHANGED <<env, remote, data, meta, failures, mapping_file, github_dir,
                 page, acc, mi, gi, ii, issues, existing, highest_issue_number, i>>

\* the program is started again: __init__ and the locals of
\* sync_bidirectional() are fresh, the repositories and the file are kept
Restart ==
  /\ pc = "exited"
  /\ run < MaxRuns
  /\ run' = run + 1
  /\ prev' = [issue_mapping |-> issue_mapping, exit_code |-> exit_code, log |-> log]
  /\ pc' = "main"
  /\ page' = 1 /\ acc' = <<>>
  /\ source_milestones' = <<>>
  /\ milestone_mapping' = EmptyDict /\ issue_mapping' = EmptyDict
  /\ synced_milestones' = 0 /\ total_issues' = 0 /\ synced_issues' = 0
  /\ mi' = 1 /\ gi' = 1 /\ ii' = 1
  /\ issues' = <<>>
  /\ existing' = None
  /\ highest_issue_number' = 0
  /\ i' = 0
  /\ exit_code' = 0
  /\ log' = <<>>
  /\ UNCHANGED <<env, remote, mapping_file, github_dir, failures, other_writes>>

(* ---------------------------- environment ------------------------------ *)
IssuePhase == {"issue_lookup", "issue_patch", "get_highest", "placeholder", "issue_post"}

\* the steps of one issue's sync that follow its opening lookup
AfterLookup == {"get_highest", "placeholder", "issue_post"}

\* somebody else creates an issue in the target between the opening lookup
\* of an issue's sync and its create request
OtherWriter ==
  /\ pc \in AfterLookup
  /\ other_writes < MaxOtherWrites
  /\ other_writes' = other_writes + 1
  /\ tgt_issues' = Append(tgt_issues, TargetIssue("Other", None))
  /\ UNCHANGED <<env, tgt_milestones, ctl, data, out, log, run, prev, failures>>

Next ==
  \/ \E configured \in BOOLEAN : Main(configured)
  \/ \E ok \in BOOLEAN : GetMilestonesPage(ok)
  \/ \E ok \in BOOLEAN : MilestoneLookup(ok)
  \/ \E ok \in BOOLEAN : MilestonePatch(ok)
  \/ \E ok, json \in BOOLEAN : MilestonePost(ok, json)
  \/ \E ok \in BOOLEAN : MilestoneConflictLookup(ok)
  \/ \E ok \in BOOLEAN : ListIssuesPage(ok)
  \/ \E ok \in BOOLEAN : IssueLookup(ok)
  \/ \E ok \in BOOLEAN : IssuePatch(ok)
  \/ \E ok \in BOOLEAN : GetHighest(ok)
  \/ \E ok \in BOOLEAN : Placeholder(ok)
  \/ \E ok, json \in BOOLEAN : IssuePost(ok, json)
  \/ Save
  \/ Summary
  \/ Restart
  \/ OtherWriter

Spec == Init /\ [][Next]_vars

TypeOK ==
  /\ mode \in Modes
  /\ pc \in {"main", "get_milestones", "ms_lookup", "ms_patch", "ms_post",
             "ms_conflict_lookup", "list_issues", "save", "summary", "exited"}
            \cup IssuePhase
  /\ exit_code \in {0, 1}
  /\ failures \in 0..MaxFailures
  /\ run \in 1..MaxRuns

(* ======================= reading the log of a run ====================== *)
Ops(l) == {l[k].op : k \in 1..Len(l)}

CreateOps == {"POST_ms", "POST_issue", "POST_placeholder"}
WriteOps == CreateOps \cup {"PATCH_ms", "PATCH_issue"}
IssueOps == {"GET_src_issues", "call", "GET_issue", "GET_highest",
             "POST_placeholder", "POST_issue", "PATCH_issue"}

\* the positions of the log at which the sync of one issue opens
Calls == {c \in 1..Len(log) : log[c].op = "call"}

\* the events of the call opened at c: up to the next call, the next group
\* listing or the end of the issue phase
CallEnd(c) ==
  LET after == {k \in (c + 1)..Len(log) :
                  log[k].op \in {"call", "GET_src_issues", "save_mappings",
                                 "print_summary", "raise_FileNotFoundError",
                                 "raise_JSONDecodeError"}}
  IN IF after = {} THEN Len(log)
     ELSE (CHOOSE k \in after : \A j \in after : k <= j) - 1

CallEvents(c) == SubSeq(log, c, CallEnd(c))

\* the call opened at c has returned
Returned(c) == CallEnd(c) < Len(log) \/ pc \notin IssuePhase

\* the numbers for which a placeholder was requested during a call, in order
RECURSIVE PlaceholderNumbers(_)
PlaceholderNumbers(l) ==
  IF l = <<>> THEN <<>>
  ELSE (IF Head(l).op = "POST_placeholder" THEN <<Head(l).n>> ELSE <<>>)
         \o PlaceholderNumbers(Tail(l))

\* <<a, a+1, ..., b>>
Interval(a, b) == [k \in 1..(b - a + 1) |-> a + k - 1]

\* positions of the events of one kind inside the call opened at c
At(c, op) == {k \in c..CallEnd(c) : log[k].op = op}

(* ================================ C7 =================================== *)
\* the source milestone listing was read to its end and held no milestone
EmptyListingRead ==
  /\ src_milestones = <<>>
  /\ \E k \in 1..Len(log) : log[k].op = "GET_src_milestones" /\ log[k].ok

\* C7: when the source milestone listing is empty, the run has ended right
\* after reporting that no milestones were found, with exit status zero; it
\* sent no milestone write and no issue request of any kind, wrote no
\* mapping file and left the target as it was when the run started.
C7_EmptySourceEndsCleanly ==
  EmptyListingRead =>
    /\ pc = "exited"
    /\ exit_code = 0
    /\ log[Len(log)].op = "print_no_milestones"
    /\ Ops(log) \cap (WriteOps \cup IssueOps \cup {"GET_ms_title", "save_mappings"}) = {}
    /\ Ops(log) = {"GET_src_milestones", "print_no_milestones"}

C7_Witness ==
  /\ EmptyListingRead
  /\ pc = "exited"
  /\ mode = "preserve"
  /\ run = 2
  /\ preexisting = 1

(* ================================ C2 =================================== *)
\* C2: in number-preserving mode, whenever the real issue of a call has been
\* requested (or is about to be), and the highest number H the call queried
\* satisfies S > H + 1, the placeholder requests of that call are exactly
\* those for H+1, H+2, ..., S-1, in that order, each once, and all of them
\* come after the query of H and before the request for the real issue.
C2_PlaceholdersAscendingGapless ==
  mode = "preserve" =>
    \A c \in Calls :
      \A h \in At(c, "GET_highest") :
        LET S == log[c].src
            H == log[h].res
            done == At(c, "POST_issue") # {}
            ready == CallEnd(c) = Len(log) /\ pc = "issue_post"
        IN (S > H + 1 /\ (done \/ ready)) =>
             /\ PlaceholderNumbers(CallEvents(c)) = Interval(H + 1, S - 1)
             /\ \A k \in At(c, "POST_placeholder") :
                  /\ h < k
                  /\ \A r \in At(c, "POST_issue") : k < r

C2_Witness ==
  /\ mode = "preserve"
  /\ \E c \in Calls :
       /\ At(c, "POST_issue") # {}
       /\ \E h \in At(c, "GET_highest") : log[h].ok /\ log[h].res = 0
       /\ PlaceholderNumbers(CallEvents(c)) = <<1, 2>>
       /\ \E k \in At(c, "POST_placeholder") : ~log[k].ok

(* ================================ C3 =================================== *)
\* the issues of the source that belong to a listed milestone
SourceIssues ==
  UNION {{src_issues[m][k] : k \in 1..Len(src_issues[m])} : m \in DOMAIN src_issues}

SourceTitle(n) == (CHOOSE s \in SourceIssues : s.number = n).title

\* the first number-preserving run, on a target that held no issue, with
\* every request answered with success and nobody else writing
AlignedRunConditions ==
  /\ mode = "preserve"
  /\ run = 1
  /\ preexisting = 0
  /\ failures = 0
  /\ other_writes = 0

MaxOf(S) == CHOOSE x \in S : \A y \in S : y <= x

\* C3: in a number-preserving run on an initially empty target, without
\* failure and without another writer, every source issue n synced so far is
\* mapped to n and is the target issue numbered n; when the run has ended
\* every listed source issue has been synced, and every target number below
\* the largest synced number that is not itself a synced number holds the
\* placeholder issue of that number.
C3_NumbersPreserved ==
  AlignedRunConditions =>
    /\ \A n \in DOMAIN issue_mapping :
         /\ issue_mapping[n] = n
         /\ n <= Len(tgt_issues)
         /\ tgt_issues[n].title = SourceTitle(n)
    /\ (pc = "exited" /\ exit_code = 0 /\ source_milestones # <<>>) =>
         /\ DOMAIN issue_mapping = {s.number : s \in SourceIssues}
         /\ synced_issues = total_issues
         /\ \A j \in 1..Len(tgt_issues) :
              j \notin DOMAIN issue_mapping =>
                /\ j < MaxOf(DOMAIN issue_mapping)
                /\ tgt_issues[j].title = PlaceholderTitle(j)

\* a single source issue, numbered MaxIssueNum: placeholders below it, the
\* real issue on its own number
C3_Witness ==
  /\ AlignedRunConditions
  /\ pc = "exited"
  /\ DOMAIN issue_mapping = {MaxIssueNum}
  /\ issue_mapping[MaxIssueNum] = MaxIssueNum
  /\ Len(tgt_issues) = MaxIssueNum
  /\ \A j \in 1..(MaxIssueNum - 1) : tgt_issues[j].title = PlaceholderTitle(j)
  /\ Len(tgt_milestones) = 1

(* ================================ C5 =================================== *)
\* the milestone phase of the run is over
MilestonePhaseOver ==
  \/ pc \in {"list_issues", "save", "summary"} \cup IssuePhase
  \/ pc = "exited" /\ "print_summary" \in Ops(log)

\* the sync of source milestone m succeeded: its PATCH or POST was answered
\* with success
MilestoneSynced(m) ==
  \E k \in 1..Len(log) :
    /\ log[k].op \in {"PATCH_ms", "POST_ms"}
    /\ log[k].src = m
    /\ log[k].ok

\* the source milestone whose group holds source issue n
GroupOf(n) ==
  CHOOSE m \in DOMAIN src_issues :
    \E k \in 1..Len(src_issues[m]) : src_issues[m][k].number = n

\* C5: in both syncing revisions, once the milestone phase is over,
\* milestone_mapping has an entry for a source milestone exactly when that
\* milestone's sync succeeded, and every create or update request sent for
\* an issue carries the mapped number of its group's milestone - so for a
\* milestone whose sync failed it carries no milestone reference.
C5_MilestoneMappingComplete ==
  (mode \in SyncModes /\ MilestonePhaseOver) =>
    /\ \A k \in 1..Len(source_milestones) :
         source_milestones[k].number \in DOMAIN milestone_mapping
           <=> MilestoneSynced(source_milestones[k].number)
    /\ \A k \in 1..Len(log) :
         log[k].op \in {"POST_issue", "PATCH_issue"} =>
           /\ log[k].ms = Get(milestone_mapping, GroupOf(log[k].src))
           /\ ~MilestoneSynced(GroupOf(log[k].src)) => log[k].ms = None

\* a milestone failed to sync, a second one synced, and an issue of the
\* failed one's group was created without milestone reference
C5_Witness ==
  /\ mode = "preserve"
  /\ MilestonePhaseOver
  /\ \E m \in DOMAIN src_issues :
       /\ ~MilestoneSynced(m)
       /\ m \notin DOMAIN milestone_mapping
       /\ \E k \in 1..Len(log) :
            /\ log[k].op = "POST_issue" /\ log[k].ok
            /\ GroupOf(log[k].src) = m
            /\ log[k].ms = None
            /\ tgt_issues[log[k].res].milestone = None
  /\ \E m \in DOMAIN src_issues : MilestoneSynced(m) /\ m \in DOMAIN milestone_mapping

(* ================================ C9 =================================== *)
\* the source numbers of the calls of the run, in call order
RECURSIVE CallNumbers(_)
CallNumbers(l) ==
  IF l = <<>> THEN <<>>
  ELSE (IF Head(l).op = "call" THEN <<Head(l).src>> ELSE <<>>)
         \o CallNumbers(Tail(l))

StrictlyAscending(q) == \A a, b \in 1..Len(q) : a < b => q[a] < q[b]

\* C9 as stated: over the whole run, across milestone groups, the issues are
\* synced in strictly ascending source-number order.
C9_AscendingAcrossRun ==
  mode = "preserve" => StrictlyAscending(CallNumbers(log))

\* the calls at a and b belong to the same milestone group
SameGroup(a, b) ==
  \A k \in a..b : log[k].op # "GET_src_issues"

\* C9 amended: inside each milestone group the issues are synced in strictly
\* ascending source-number order, whatever the order of the group's listing.
C9_AscendingWithinGroup ==
  mode = "preserve" =>
    \A a, b \in Calls : (a < b /\ SameGroup(a, b)) => log[a].src < log[b].src

\* a group listed in descending order has been synced
C9_Witness ==
  /\ mode = "preserve"
  /\ \E m \in DOMAIN src_issues :
       /\ Len(src_issues[m]) >= 2
       /\ src_issues[m][1].number > src_issues[m][2].number
       /\ \E a, b \in Calls :
            /\ a < b /\ SameGroup(a, b)
            /\ GroupOf(log[a].src) = m

(* ================================ C1 =================================== *)
RequestOps == {"GET_src_milestones", "GET_ms_title", "PATCH_ms", "POST_ms",
               "GET_src_issues", "GET_issue", "GET_highest",
               "POST_placeholder", "POST_issue", "PATCH_issue"}

\* every request of a run's log was answered with success
FailureFree(l) == \A k \in 1..Len(l) : l[k].op \in RequestOps => l[k].ok

\* the previous run went through every phase, met no failure and exited zero
PreviousRunClean ==
  /\ run >= 2
  /\ prev.exit_code = 0
  /\ "print_summary" \in Ops(prev.log)
  /\ FailureFree(prev.log)

\* C1: a free-numbering run that follows a complete free-numbering run over
\* the same source, with nobody else writing to the target, sends no create
\* request for a milestone or an issue.  (Stated for a first run that met no
\* failure at all.)
C1_SecondRunCreatesNothing ==
  (mode = "free" /\ PreviousRunClean /\ other_writes = 0) =>
    Ops(log) \cap CreateOps = {}

(* ================================ C4 =================================== *)
\* the call that is in progress: the last one opened
CurrentCall == CHOOSE c \in Calls : \A d \in Calls : d <= c

\* C4: in number-preserving mode, when the create request for a real issue
\* is due and its intended number S is at most the highest number of the
\* target, the lookup of number S made earlier in the same call was answered
\* "not found".
C4_CreateOnlyAfterAbsentLookup ==
  (mode = "preserve" /\ pc = "issue_post" /\ CurrentIssue.number <= Len(tgt_issues)) =>
    \E g \in At(CurrentCall, "GET_issue") :
      /\ log[g].n = CurrentIssue.number
      /\ log[g].ok
      /\ log[g].res = None

(* ================================ C6 =================================== *)
\* C6: in number-preserving mode, a call for source issue S that starts
\* while the target holds an issue numbered S sends no create request
\* (placeholder or real) and prints no numbering warning; once it has
\* returned it has sent the update of number S, and if that update
\* succeeded issue_mapping[S] = S.
C6_ExistingIssueUpdatedInPlace ==
  mode = "preserve" =>
    \A c \in Calls :
      log[c].src <= log[c].res =>
        /\ At(c, "POST_issue") \cup At(c, "POST_placeholder") = {}
        /\ At(c, "print_created_as_instead_of") = {}
        /\ Returned(c) =>
             \E u \in At(c, "PATCH_issue") :
               /\ log[u].n = log[c].src
               /\ log[u].ok => Get(issue_mapping, log[c].src) = log[c].src

(* ================================ C8 =================================== *)
\* the run printed a warning that names source issue s
WarnedAbout(s) ==
  \E k \in 1..Len(log) :
    /\ log[k].src = s
    /\ log[k].op \in {"print_created_as_instead_of", "print_placeholder_failed"}

\* every lookup and query about the target in a run's log was answered
ReadsAnsweredIn(l) ==
  \A k \in 1..Len(l) : l[k].op \in {"GET_issue", "GET_highest"} => l[k].ok

\* C8: a number-preserving run that follows another one over the same
\* source, with nobody else writing and every read of both runs answered,
\* never records for a source issue a target number other than the one the
\* previous run recorded, unless it printed a warning about that issue.
C8_MappingMonotonic ==
  (/\ mode = "preserve" /\ run >= 2 /\ other_writes = 0
   /\ ReadsAnsweredIn(prev.log) /\ ReadsAnsweredIn(log)) =>
    \A s \in (DOMAIN issue_mapping) \cap (DOMAIN prev.issue_mapping) :
      issue_mapping[s] # prev.issue_mapping[s] => WarnedAbout(s)

(* ================================ C10 ================================== *)
\* the issues whose create or update succeeded on the intended number
AlignedSyncs ==
  {k \in 1..Len(log) :
     /\ log[k].op \in {"POST_issue", "PATCH_issue"}
     /\ log[k].ok
     /\ log[k].res = log[k].src}

\* C10: in number-preserving mode, with every read answered and nobody
\* else writing, an issue that was created under a number other than its
\* source number is not counted in synced_issues.
C10_AnomalyNotCountedAsSynced ==
  (mode = "preserve" /\ ReadsAnsweredIn(log) /\ other_writes = 0) =>
    synced_issues <= Cardinality(AlignedSyncs)

(* ================================ C11 ================================== *)
\* the call opened at c met a refused placeholder request
PlaceholderFailedIn(c) == \E k \in At(c, "POST_placeholder") : ~log[k].ok

\* C11: in number-preserving mode, a call in which a placeholder request
\* was refused sends no create request for the real issue: the attempt to
\* preserve the number is given up.
C11_PlaceholderFailureAborts ==
  mode = "preserve" =>
    \A c \in Calls : PlaceholderFailedIn(c) => At(c, "POST_issue") = {}

(* ================================ C12 ================================== *)
\* a required configuration value was missing, or a page request of the
\* source milestone listing was refused
FatalCondition ==
  \/ "print_missing_config" \in Ops(log)
  \/ \E k \in 1..Len(log) : log[k].op = "GET_src_milestones" /\ ~log[k].ok

\* C12: when a run of the number-preserving revision has ended, its exit
\* status is non-zero exactly when configuration was missing or the source
\* milestone listing was refused; whatever else failed, it is zero.
C12_ExitStatus ==
  (mode = "preserve" /\ pc = "exited") => (exit_code # 0 <=> FatalCondition)

(* ================================ C13 ================================== *)
\* a Python dict as the set of its items, each key with its type: an int
\* key and a str key never compare equal, whatever their digits
IntKeyedItems(d) == {<<"int", IntToStr(n), d[n]>> : n \in DOMAIN d}
StrKeyedItems(d) == {<<"str", k, d[k]>> : k \in DOMAIN d}

\* json.load of the mapping file: the keys of an object are strings
Reloaded == StrKeyedItems(mapping_file.issue_mappings)

NumberingReports == {"print_placeholder_failed", "print_created_as_instead_of"}

\* C14: in number-preserving mode, in a call whose lookup was answered
\* "not found" and whose query of the highest target number returned
\* H >= S, the create request for the real issue is preceded, after the
\* query, by a report of the numbering anomaly, and the call sends no
\* placeholder request.
C14_DriftReportedBeforeCreate ==
  mode = "preserve" =>
    \A c \in Calls :
      \A h \in At(c, "GET_highest"), r \in At(c, "POST_issue") :
        (/\ \A g \in At(c, "GET_issue") : log[g].ok /\ log[g].res = None
         /\ log[h].ok
         /\ log[h].res >= log[c].src) =>
          /\ At(c, "POST_placeholder") = {}
          /\ \E k \in (h + 1)..(r - 1) : log[k].op \in NumberingReports

(* ================================ C15 ================================== *)
\* the create request at r of the call opened at c succeeded under a number
\* other than the source number
Drifted(c, r) ==
  /\ r \in At(c, "POST_issue")
  /\ log[r].ok
  /\ log[r].res # log[c].src

\* C15: in number-preserving mode, when the real issue of source number S
\* was created under another number A, then issue_mapping[S] = A, the
\* request is directly followed by the warning that names A and S, the call
\* sends no further request, and the run opens no second call for S.
C15_DriftRecordedAndWarned ==
  mode = "preserve" =>
    \A c \in Calls : \A r \in At(c, "POST_issue") :
      Drifted(c, r) =>
        /\ Get(issue_mapping, log[c].src) = log[r].res
        /\ r + 1 = CallEnd(c)
        /\ log[r + 1].op = "print_created_as_instead_of"
        /\ log[r + 1].src = log[c].src
        /\ log[r + 1].res = log[r].res
        /\ \A d \in Calls : log[d].src = log[c].src => d = c

\* a run that met a drifted create has gone on to its end
C15_Witness ==
  /\ mode = "preserve"
  /\ pc = "exited"
  /\ "save_mappings" \in Ops(log)
  /\ \E c \in Calls : \E r \in At(c, "POST_issue") :
       /\ Drifted(c, r)
       /\ CallEnd(c) < Len(log)
       /\ \E d \in Calls : d > c

(* ================================ C16 ================================== *)
\* the refused placeholder requests of the call opened at c
FailedSlots(c) == {k \in At(c, "POST_placeholder") : ~log[k].ok}

\* the create request of the call opened at c is sent or due
CreateReached(c) ==
  \/ At(c, "POST_issue") # {}
  \/ CallEnd(c) = Len(log) /\ pc = "issue_post"

\* C16: in number-preserving mode, every refused placeholder request is
\* directly followed by the report that names its slot; a call that met a
\* refused placeholder still requests every slot of H+1..S-1 once, in order,
\* and then the real issue; and when H was read from the target and nobody
\* else writes, a real issue created after f refused placeholders gets the
\* number S - f.
C16_BestEffortAfterPlaceholderFailure ==
  mode = "preserve" =>
    \A c \in Calls :
      /\ \A k \in FailedSlots(c) :
           /\ k < Len(log)
           /\ log[k + 1].op = "print_placeholder_failed"
           /\ log[k + 1].n = log[k].n
      /\ FailedSlots(c) # {} =>
           /\ Returned(c) => At(c, "POST_issue") # {}
           /\ \A h \in At(c, "GET_highest") :
                /\ CreateReached(c) =>
                     PlaceholderNumbers(CallEvents(c)) =
                       Interval(log[h].res + 1, log[c].src - 1)
                /\ \A r \in At(c, "POST_issue") :
                     (log[h].ok /\ log[r].ok /\ other_writes = 0) =>
                       log[r].res = log[c].src - Cardinality(FailedSlots(c))

\* the placeholder for slot 1 was refused, the one for slot 2 was created,
\* and the real issue numbered 3 in the source was created as number 2
C16_Witness ==
  /\ mode = "preserve"
  /\ other_writes = 0
  /\ \E c \in Calls :
       /\ log[c].src = 3
       /\ \E k \in FailedSlots(c) : log[k].n = 1
       /\ \E k \in At(c, "POST_placeholder") : log[k].n = 2 /\ log[k].ok
       /\ \E r \in At(c, "POST_issue") : log[r].ok /\ log[r].res = 2

(* ================================ C17 ================================== *)
\* some real issue of the run was created under a number other than its
\* source number
AlignmentLost ==
  \E c \in Calls : \E r \in At(c, "POST_issue") : Drifted(c, r)

\* C17: in number-preserving mode, as long as no request was refused and
\* nobody else has written to the target, no real issue is created under a
\* number other than its source number.  (That a second writer makes such a
\* state reachable is what the witness shows.)
C17_AlignedWithoutOtherWriter ==
  (mode = "preserve" /\ failures = 0 /\ other_writes = 0) => ~AlignmentLost

\* no request was refused; somebody else created an issue after the call
\* had queried the highest number (the query still returned the number of
\* issues the target held when the call began) and the real issue was
\* created under another number than its source number
C17_Witness ==
  /\ mode = "preserve"
  /\ failures = 0
  /\ other_writes = 1
  /\ \E c \in Calls : \E r \in At(c, "POST_issue") :
       /\ Drifted(c, r)
       /\ \E h \in At(c, "GET_highest") :
            /\ log[h].res = log[c].res
            /\ log[h].res < log[c].src
       /\ log[r].res = log[c].src + 1

(* ================================ C18 ================================== *)
MilestoneOps == {"GET_ms_title", "PATCH_ms", "POST_ms"}

\* the source milestones whose issue listing was begun, in order
RECURSIVE GroupsListed(_)
GroupsListed(l) ==
  IF l = <<>> THEN <<>>
  ELSE (IF Head(l).op = "GET_src_issues" /\ Head(l).n = 1
        THEN <<Head(l).src>> ELSE <<>>)
         \o GroupsListed(Tail(l))

\* the milestone whose group was being listed last before position k
GroupAt(k) ==
  LET before == {j \in 1..k : log[j].op = "GET_src_issues"}
  IN log[CHOOSE j \in before : \A x \in before : x <= j].src

Positions(ops) == {k \in 1..Len(log) : log[k].op \in ops}

\* C18: in every revision, each request of the milestone phase precedes
\* each request of the issue phase, and the issue phase begins only when
\* every source milestone has had its sync attempt; the groups are listed
\* one per source milestone in the order of the milestone listing, and an
\* issue is synced while its own milestone's group is the current one; the
\* mapping file is written at most once, and when the final counts of a
\* syncing revision are reported it was written exactly once, directly
\* before them and after every request of the issue phase.
C18_PhasesOrdered ==
  /\ \A a \in Positions(MilestoneOps), b \in Positions(IssueOps) : a < b
  /\ Positions(IssueOps) # {} =>
       \A k \in 1..Len(source_milestones) :
         \E a \in Positions({"PATCH_ms", "POST_ms"}) :
           log[a].src = source_milestones[k].number
  /\ LET g == GroupsListed(log)
     IN /\ Len(g) <= Len(source_milestones)
        /\ \A j \in 1..Len(g) : g[j] = source_milestones[j].number
        /\ "print_summary" \in Ops(log) => Len(g) = Len(source_milestones)
  /\ \A c \in Calls : GroupAt(c) = GroupOf(log[c].src)
  /\ Cardinality(Positions({"save_mappings"})) <= 1
  /\ (mode \in SyncModes /\ "print_summary" \in Ops(log)) =>
       /\ log[Len(log)].op = "print_summary"
       /\ Positions({"save_mappings"}) = {Len(log) - 1}
       /\ \A b \in Positions(IssueOps \cup MilestoneOps) : b < Len(log) - 1

\* a run over two milestones, each with issues, has reported its counts
C18_Witness ==
  /\ mode \in SyncModes
  /\ pc = "exited"
  /\ "print_summary" \in Ops(log)
  /\ Len(source_milestones) = 2
  /\ \A k \in 1..2 : \E c \in Calls : GroupOf(log[c].src) = source_milestones[k].number
  /\ mapping_file.exists

(* ================================ C19 ================================== *)
\* the source milestones whose issue listing was read to its empty page
GroupsRead ==
  {m \in DOMAIN src_issues :
     /\ \E k \in Positions({"GET_src_issues"}) : log[k].src = m
     /\ \A k \in Positions({"GET_src_issues"}) : log[k].src = m => log[k].ok}

\* C19: when a number-preserving run whose source milestone listing
\* succeeded and was not empty has ended, it has attempted every source
\* milestone exactly once, has listed the group of every milestone, has
\* opened exactly one call for every issue of every group it could list,
\* and has written the mapping file: no refused request ended it early.
C19_EveryRecordAttemptedOnce ==
  (mode = "preserve" /\ pc = "exited" /\ source_milestones # <<>>) =>
    /\ \A k \in 1..Len(source_milestones) :
         Cardinality({a \in Positions({"PATCH_ms", "POST_ms"}) :
                        log[a].src = source_milestones[k].number}) = 1
    /\ Len(GroupsListed(log)) = Len(source_milestones)
    /\ \A m \in GroupsRead : \A j \in 1..Len(src_issues[m]) :
         Cardinality({c \in Calls : log[c].src = src_issues[m][j].number}) = 1
    /\ "save_mappings" \in Ops(log)

(* ================================ C20 ================================== *)
\* C20: in every revision, a page request of a listing (the source
\* milestones, or the issues of one source milestone) that is refused is
\* the last thing the run does: the run ends there with an error status,
\* and no step of the run takes the listing for an empty or shorter one.
C20_ListingFailureIsAnError ==
  \A k \in Positions({"GET_src_milestones", "GET_src_issues"}) :
    ~log[k].ok =>
      /\ k = Len(log)
      /\ pc = "exited"
      /\ exit_code # 0

(* ================================ C21 ================================== *)
\* the call opened at c took the placeholder-and-create path: it went on to
\* query the highest number of the target
CreatePathTaken(c) == At(c, "GET_highest") # {}

\* C21: in number-preserving mode, a call takes the placeholder-and-create
\* path only when the target held no issue at the source number when the
\* call looked it up (the target numbers its issues 1, 2, ... so the issue
\* is absent exactly when the source number exceeds the highest number).
C21_CreatePathOnlyWhenAbsent ==
  mode = "preserve" =>
    \A c \in Calls : CreatePathTaken(c) => log[c].src > log[c].res

(* ================================ C22 ================================== *)
\* the create and update requests for real issues that were answered with
\* success: the calls that returned a record
RecordReturned == {k \in Positions({"POST_issue", "PATCH_issue"}) : log[k].ok}

\* C22: in both syncing revisions, at every moment of a run, issue_mapping
\* has an entry for exactly the source issues whose call returned a record
\* (created on or off its number, or updated), its value being the number
\* the target answered with; synced_issues is the number of those issues,
\* total_issues is the number of calls opened, and synced_issues never
\* exceeds total_issues.
C22_MappingAndCounters ==
  mode \in SyncModes =>
    /\ DOMAIN issue_mapping = {log[k].src : k \in RecordReturned}
    /\ \A k \in RecordReturned : issue_mapping[log[k].src] = log[k].res
    /\ synced_issues = Cardinality(RecordReturned)
    /\ synced_issues = Cardinality(DOMAIN issue_mapping)
    /\ total_issues = Cardinality(Calls)
    /\ synced_issues <= total_issues

\* a number-preserving run has ended after one issue was synced and the
\* update or create of another was refused
C22_Witness ==
  /\ mode = "preserve"
  /\ pc = "exited"
  /\ "save_mappings" \in Ops(log)
  /\ total_issues = 2
  /\ synced_issues = 1
  /\ \E k \in Positions({"POST_issue", "PATCH_issue"}) :
       /\ ~log[k].ok
       /\ log[k].src \notin DOMAIN issue_mapping

(* ================================ C23 ================================== *)
SourceMilestoneTitle(n) ==
  src_milestones[CHOOSE k \in 1..Len(src_milestones) : src_milestones[k].number = n].title

\* the target milestones that carry a title
Carrying(title) == {t \in 1..Len(tgt_milestones) : tgt_milestones[t] = title}

CreatedFor(title) ==
  {p \in Positions({"POST_issue"}) : log[p].ok /\ SourceTitle(log[p].src) = title}

\* C24: in the title-matching revision, two source issues of one title
\* that are both mapped are mapped to the same target number, and the run
\* creates at most one target issue per title.
C24_DuplicateTitlesShareTarget ==
  mode = "free" =>
    /\ \A a, b \in DOMAIN issue_mapping :
         SourceTitle(a) = SourceTitle(b) => issue_mapping[a] = issue_mapping[b]
    /\ \A c \in Calls : Cardinality(CreatedFor(SourceTitle(log[c].src))) <= 1

(* ================================ C25 ================================== *)
\* C25: in number-preserving mode, a refused query of the highest number
\* yields 0, as an empty target does; the call then requests a placeholder
\* for every number 1, 2, ..., S-1, in that order, before the real issue,
\* whatever the target holds.
C25_FailedQueryReadAsEmpty ==
  mode = "preserve" =>
    \A c \in Calls : \A h \in At(c, "GET_highest") :
      ~log[h].ok =>
        /\ log[h].res = 0
        /\ CreateReached(c) =>
             PlaceholderNumbers(CallEvents(c)) = Interval(1, log[c].src - 1)

\* the target held an issue when the call for source issue 3 began; the
\* query was refused and placeholders 1 and 2 were created behind the
\* issue the target held, so that the real issue was not created as 3
C25_Witness ==
  /\ mode = "preserve"
  /\ \E c \in Calls :
       /\ log[c].src = 3
       /\ log[c].res >= 1
       /\ \E h \in At(c, "GET_highest") : ~log[h].ok
       /\ PlaceholderNumbers(CallEvents(c)) = <<1, 2>>
       /\ \A k \in At(c, "POST_placeholder") : log[k].ok /\ log[k].res # log[k].n
       /\ \E r \in At(c, "POST_issue") : Drifted(c, r)

(* ================================ C26 ================================== *)
\* the previous run mapped every source issue it synced to its own number
PreviousRunAligned ==
  \A n \in DOMAIN prev.issue_mapping : prev.issue_mapping[n] = n

\* C26: a number-preserving run that follows a run which met no refused
\* request, ended normally and mapped every issue to its own number, with
\* nobody else writing to the target, sends no create request for an issue
\* (placeholder or real), sends every update to the issue's own number, and
\* records for an issue only the number the previous run recorded.
C26_SecondRunUpdatesInPlace ==
  (/\ mode = "preserve"
   /\ PreviousRunClean
   /\ PreviousRunAligned
   /\ other_writes = 0) =>
    /\ Positions({"POST_issue", "POST_placeholder"}) = {}
    /\ \A u \in Positions({"PATCH_issue"}) : log[u].n = log[u].src
    /\ \A n \in DOMAIN issue_mapping :
         /\ n \in DOMAIN prev.issue_mapping
         /\ issue_mapping[n] = prev.issue_mapping[n]

====
